---- MODULE Spec2Model ----
(***************************************************************************)
(* Move tree of the analysis view (src/unnamed/part_001): MoveNode objects, *)
(* the moveTree / currentNode / selectedPath refs, the tree mutators, the   *)
(* navigation handlers and the evaluation requests bound to tree nodes.     *)
(*                                                                          *)
(* Objects are modelled as a heap: every MoveNode is a slot of `heap`,      *)
(* references are slot numbers.  A slot no reference can reach any more is  *)
(* released (garbage collection) and may be handed out again.  The plain    *)
(* object produced by `moveTree.value = { ...moveTree.value }` is the       *)
(* reference RootCopy; its own fields live in `rootCopy`.  It shares the    *)
(* children array of the object it was spread from and has no methods.      *)
(***************************************************************************)
EXTENDS Integers, Sequences, FiniteSets, TLC

\* ---- bounds ----
MaxObj == 4          \* MoveNode objects alive at the same time
MaxMoves == 2        \* longest move list handed to buildTreeFromMoves
MaxRequests == 2     \* evaluation requests in flight at the same time
\* entries of the evaluation cache younger than CACHE_EXPIRY at one time
MaxCached == 1
MaxAnnotated == 1    \* shashinType / moveEvaluation properties set at the same time

\* ---- references ----
Null == 0
RootCopy == 0 - 1
Ids == 1..MaxObj

\* ---- position oracle (chess.js), abstracted ----
\* Move texts the views can send.  "e2e4" is a second spelling of "e4";
\* "zz" is never a move.  A position is the list of SANs played from the
\* starting position; the oracle rejects a move that repeats the last one.
MoveTexts == {"e4", "e2e4", "d5", "zz"}
San(t) == IF t = "e2e4" THEN "e4" ELSE t
Legal(pos, t) ==
  t # "zz" /\ (IF Len(pos) = 0 THEN TRUE ELSE pos[Len(pos)] # San(t))
startingFen == << >>

\* ---- MoveNode ----
NoEval == [fen |-> << >>, sideToMove |-> "none"]
\* shashinType and moveEvaluation are properties the annotation handlers add
\* to a node; "none" is a node without the property, or with null
Free == [used |-> FALSE, move |-> "", fen |-> << >>, parent |-> Null,
         children |-> << >>, mainLine |-> Null, evaluation |-> NoEval,
         shashinType |-> "none", moveEvaluation |-> "none"]
MoveNode(move, fen, parent) ==
  [used |-> TRUE, move |-> move, fen |-> fen, parent |-> parent,
   children |-> << >>, mainLine |-> Null, evaluation |-> NoEval,
   shashinType |-> "none", moveEvaluation |-> "none"]
NoCopy == [children |-> Null, mainLine |-> Null]
Threw == << 0 - 2 >>

\* ---- EvaluationBar: props, refs and the POSTs it has in flight ----
\* the fen prop is a position as above, or the empty string
NoFen == << "" >>
BarFens == {startingFen, << "e4" >>, << "e4", "d5" >>, NoFen}
BarDepths == {15, 20}
NoBarEvaluation == [fen |-> NoFen, depth |-> 0]
\* response.data.evaluation of a POST for fen f at depth d
BarEvaluation(f, d) == [fen |-> f, depth |-> d]
\* the computed isWhiteToMove, for a value f of the fen prop
isWhiteToMove(f) == IF f = NoFen THEN TRUE ELSE Len(f) % 2 = 0
\* nothing to draw yet: lastValidPercentage is 50, lastValidEvaluation ''
NoLastValid == [evaluation |-> NoBarEvaluation, whiteToMove |-> TRUE]
\* the body of fetchEvaluation up to its await, on the bar b
fetchEvaluation(b) ==
  IF b.fen = NoFen \/ ~b.enabled
  THEN [b EXCEPT !.evaluation = NoBarEvaluation, !.evaluationSideToMove = TRUE]
  ELSE [b EXCEPT !.loading = TRUE, !.error = "none",
                 !.evaluationSideToMove = isWhiteToMove(b.fen),
                 !.posts = Append(@, BarEvaluation(b.fen, b.depth))]
\* setup with the props ChessBoard passes; watch(props.fen) is immediate
BarMounted ==
  fetchEvaluation([fen |-> startingFen, depth |-> 15, enabled |-> TRUE,
                   evaluation |-> NoBarEvaluation, loading |-> FALSE,
                   error |-> "none", evaluationSideToMove |-> TRUE,
                   lastValid |-> NoLastValid, posts |-> << >>])

VARIABLES heap, moveTree, rootCopy, currentNode, selectedPath, fen,
          requests, isLoadingEvaluations, evaluationCache, pc, last,
          evaluationBar

vars == << heap, moveTree, rootCopy, currentNode, selectedPath, fen,
           requests, isLoadingEvaluations, evaluationCache, pc, last,
           evaluationBar >>

Range(s) == {s[i] : i \in 1..Len(s)}

\* ---- field access through a reference (MoveNode or the spread copy) ----
ChildrenOf(h, rc, ref) ==
  IF ref = RootCopy THEN h[rc.children].children ELSE h[ref].children
MainLineOf(h, rc, ref) ==
  IF ref = RootCopy THEN rc.mainLine ELSE h[ref].mainLine
ParentOf(h, ref) == IF ref = RootCopy THEN Null ELSE h[ref].parent
FenOf(h, ref) == IF ref = RootCopy THEN startingFen ELSE h[ref].fen

\* Array.prototype.indexOf, 0-based, -1 when absent
IndexOf(s, x) ==
  IF \E i \in 1..Len(s) : s[i] = x
  THEN (CHOOSE i \in 1..Len(s) : s[i] = x /\ \A j \in 1..(i - 1) : s[j] # x) - 1
  ELSE 0 - 1

\* MoveNode.getPath
RECURSIVE GetPath(_, _)
GetPath(h, n) ==
  IF h[n].parent = Null THEN << >>
  ELSE Append(GetPath(h, h[n].parent), IndexOf(h[h[n].parent].children, n))

\* node.getPath() as a call: the spread copy has no getPath method
CallGetPath(h, ref) == IF ref = RootCopy THEN Threw ELSE GetPath(h, ref)

\* getMainLineMoves
RECURSIVE MainLineFrom(_, _, _)
MainLineFrom(h, rc, ref) ==
  IF MainLineOf(h, rc, ref) = Null THEN << >>
  ELSE << MainLineOf(h, rc, ref) >> \o MainLineFrom(h, rc, MainLineOf(h, rc, ref))
getMainLineMoves(h, rc, root) == MainLineFrom(h, rc, root)

\* rebuildMovesDisplay stores only into moves and selectedMoveIndex, two refs
\* that feed the template and that no handler reads back; they are not state
\* of this model.

\* ---- garbage collection ----
RefsOf(h, n) == ({h[n].parent, h[n].mainLine} \cup Range(h[n].children)) \ {Null}
RECURSIVE Closure(_, _)
Closure(h, S) ==
  LET T == S \cup UNION {RefsOf(h, n) : n \in S}
  IN IF T = S THEN S ELSE Closure(h, T)
Collect(h, roots) ==
  LET live == Closure(h, roots \cap Ids)
  IN [i \in Ids |-> IF i \in live THEN h[i] ELSE Free]
RequestNodes(rq) == {r.node : r \in rq}
Roots(mt, rc, cur, rq) == {mt, cur, rc.children, rc.mainLine} \cup RequestNodes(rq)
FreeIds(h) == {i \in Ids : ~h[i].used}
NewId(h) == CHOOSE i \in FreeIds(h) : \A j \in FreeIds(h) : i <= j

\* ---- nodes the move list shows (MoveTreeDisplay walks mainLine and children) ----
Shown(h, rc, root) ==
  LET first == (Range(ChildrenOf(h, rc, root)) \cup {MainLineOf(h, rc, root)}) \ {Null}
  IN Closure([i \in Ids |-> [h[i] EXCEPT !.parent = Null]], first)
\* nodes reachable from the root through children arrays only
RECURSIVE Below(_, _)
Below(h, S) ==
  LET T == S \cup UNION {Range(h[n].children) : n \in S}
  IN IF T = S THEN S ELSE Below(h, T)
TreeNodes(h, rc, root) == Below(h, Range(ChildrenOf(h, rc, root)))

\* where setMovesFromPGN stands: idle, or inside the handler after
\* buildTreeFromMoves(payload.moves) has returned, with its payload
Idle == [at |-> "idle", moves |-> << >>]
\* inside the handler: the view is a spectator and no batch started, the
\* batch posted requests, or the batch posted none
AfterBuild == {"builtSpectator", "built", "builtNothingFired"}

\* ghost: the handler that ran last, how it ended, and one fact about the
\* state it started from
Did(op, outcome, flag) == [op |-> op, outcome |-> outcome, flag |-> flag]

\* ---- initializeTree (onMounted) ----
Init ==
  /\ heap = [i \in Ids |-> IF i = 1 THEN MoveNode("", startingFen, Null) ELSE Free]
  /\ moveTree = 1
  /\ rootCopy = NoCopy
  /\ currentNode = 1
  /\ selectedPath = << >>
  /\ fen = startingFen
  /\ requests = {}
  /\ isLoadingEvaluations = FALSE
  /\ evaluationCache = << >>
  /\ pc = Idle
  /\ last = Did("initializeTree", "done", FALSE)
  /\ evaluationBar = BarMounted

\* MoveNode.addChild / MoveNode.addVariation on heap slot p, new node in slot c
addChildNoMainLine(h, p, c, move, f) ==
  [h EXCEPT ![c] = MoveNode(move, f, p),
            ![p].children = Append(@, c)]
addChild(h, p, c, move, f) ==
  [h EXCEPT ![c] = MoveNode(move, f, p),
            ![p].children = Append(@, c),
            ![p].mainLine = IF @ = Null THEN c ELSE @]
addVariationTwice(h, p, c, move, f) ==
  [h EXCEPT ![c] = MoveNode(move, f, p),
            ![p].children = Append(Append(@, c), c)]
addVariation(h, p, c, move, f) ==
  [h EXCEPT ![c] = MoveNode(move, f, p),
            ![p].children = Append(@, c)]

\* children.find((child) => child.move === san)
FindChild(h, kids, san) ==
  IF \E i \in 1..Len(kids) : h[kids[i]].move = san
  THEN kids[CHOOSE i \in 1..Len(kids) :
              h[kids[i]].move = san /\ \A j \in 1..(i - 1) : h[kids[j]].move # san]
  ELSE Null

\* ---- addMove ----
AddMoveIgnoringOracle(text) ==
  LET c == NewId(heap)
      f == Append(heap[currentNode].fen, San(text))
  IN /\ ~Legal(FenOf(heap, currentNode), text)
     /\ currentNode # RootCopy
     /\ FreeIds(heap) # {}
     /\ heap' = addVariation(heap, currentNode, c, San(text), f)
     /\ currentNode' = c
     /\ selectedPath' = GetPath(heap', c)
     /\ fen' = f
     /\ last' = Did("addMove", "new", FALSE)
     /\ UNCHANGED << moveTree, rootCopy, requests, isLoadingEvaluations, pc, evaluationCache, evaluationBar >>

AddMoveRejected(text) ==
  /\ ~Legal(FenOf(heap, currentNode), text)
  /\ last' = Did("addMove", "rejected", FALSE)
  /\ UNCHANGED << heap, moveTree, rootCopy, currentNode, selectedPath, fen, requests, isLoadingEvaluations, pc, evaluationCache, evaluationBar >>

AddMoveExisting(text) ==
  LET kids == ChildrenOf(heap, rootCopy, currentNode)
      existingChild == FindChild(heap, kids, San(text))
  IN /\ Legal(FenOf(heap, currentNode), text)
     /\ existingChild # Null
     /\ currentNode' = existingChild
     /\ selectedPath' = GetPath(heap, existingChild)
     /\ fen' = heap[existingChild].fen
     /\ heap' = Collect(heap, Roots(moveTree, rootCopy, existingChild, requests))
     /\ last' = Did("addMove", "existing", FALSE)
     /\ UNCHANGED << moveTree, rootCopy, requests, isLoadingEvaluations, pc, evaluationCache, evaluationBar >>

\* the spread copy has neither addChild nor addVariation: the TypeError is
\* caught by addMove's try/catch and addMove returns null
AddMoveThrew(text) ==
  /\ Legal(FenOf(heap, currentNode), text)
  /\ FindChild(heap, ChildrenOf(heap, rootCopy, currentNode), San(text)) = Null
  /\ currentNode = RootCopy
  /\ last' = Did("addMove", "threw", FALSE)
  /\ UNCHANGED << heap, moveTree, rootCopy, currentNode, selectedPath, fen, requests, isLoadingEvaluations, pc, evaluationCache, evaluationBar >>

AddMoveNew(text) ==
  LET kids == ChildrenOf(heap, rootCopy, currentNode)
      san == San(text)
      c == NewId(heap)
      f == Append(heap[currentNode].fen, san)
      h1 == IF Len(kids) = 0 THEN addChild(heap, currentNode, c, san, f)
                             ELSE addVariation(heap, currentNode, c, san, f)
  IN /\ Legal(FenOf(heap, currentNode), text)
     /\ FindChild(heap, kids, san) = Null
     /\ currentNode # RootCopy
     /\ FreeIds(heap) # {}
     /\ heap' = h1
     /\ currentNode' = c
     /\ selectedPath' = GetPath(h1, c)
     /\ fen' = f
     /\ last' = Did("addMove", "new", Len(kids) = 0)
     /\ UNCHANGED << moveTree, rootCopy, requests, isLoadingEvaluations, pc, evaluationCache, evaluationBar >>

addMove(text) ==
  /\ pc.at = "idle"
  /\ \/ AddMoveRejected(text)
     \/ AddMoveExisting(text)
     \/ AddMoveThrew(text)
     \/ AddMoveNew(text)

\* ---- navigation ----
\* navigateToNode.  On the spread
\* copy node.getPath() throws after currentNode has been assigned, so the
\* path and the fen are not updated.
Navigate(op, node) ==
  /\ currentNode' = node
  /\ IF node = RootCopy
     THEN /\ UNCHANGED << selectedPath, fen >>
          /\ last' = Did(op, "threw", FALSE)
     ELSE /\ selectedPath' = GetPath(heap, node)
          /\ fen' = heap[node].fen
          /\ last' = Did(op, "moved", FALSE)
  /\ heap' = Collect(heap, Roots(moveTree, rootCopy, node, requests))
  /\ UNCHANGED << moveTree, rootCopy, requests, isLoadingEvaluations, pc, evaluationCache, evaluationBar >>

Stay(op) ==
  /\ last' = Did(op, "noop", FALSE)
  /\ UNCHANGED << heap, moveTree, rootCopy, currentNode, selectedPath, fen, requests, isLoadingEvaluations, pc, evaluationCache, evaluationBar >>

backStart ==
  /\ pc.at = "idle"
  /\ Navigate("backStart", moveTree)

backOneMove ==
  /\ pc.at = "idle"
  /\ IF ParentOf(heap, currentNode) # Null
     THEN Navigate("backOneMove", ParentOf(heap, currentNode))
     ELSE Stay("backOneMove")

forwardToFirstChild ==
  /\ pc.at = "idle"
  /\ IF Len(ChildrenOf(heap, rootCopy, currentNode)) > 0
     THEN Navigate("forwardOneMove", ChildrenOf(heap, rootCopy, currentNode)[1])
     ELSE Stay("forwardOneMove")
forwardOneMove ==
  /\ pc.at = "idle"
  /\ IF MainLineOf(heap, rootCopy, currentNode) # Null
     THEN Navigate("forwardOneMove", MainLineOf(heap, rootCopy, currentNode))
     ELSE IF Len(ChildrenOf(heap, rootCopy, currentNode)) > 0
          THEN Navigate("forwardOneMove", ChildrenOf(heap, rootCopy, currentNode)[1])
          ELSE Stay("forwardOneMove")

forwardEnd ==
  LET mainLine == getMainLineMoves(heap, rootCopy, moveTree)
  IN /\ pc.at = "idle"
     /\ IF Len(mainLine) > 0
        THEN Navigate("forwardEnd", mainLine[Len(mainLine)])
        ELSE Stay("forwardEnd")

\* @nodeClicked="navigateToNode" on a move shown in the move list
nodeClicked(n) ==
  /\ pc.at = "idle"
  /\ n \in Shown(heap, rootCopy, moveTree)
  /\ Navigate("nodeClicked", n)

\* ---- annotations: the context menu of a move shown in the move list ----
ShashinTypes == {"capablanca", "none"}
MoveEvaluations == {"blunder", "none"}
AnnotationCount(h) ==
  Cardinality({n \in Ids : h[n].shashinType # "none"})
    + Cardinality({n \in Ids : h[n].moveEvaluation # "none"})
setShashinType(n, type) ==
  /\ pc.at = "idle"
  /\ n \in Shown(heap, rootCopy, moveTree)
  /\ heap' = [heap EXCEPT ![n].shashinType = type]
  /\ AnnotationCount(heap') <= MaxAnnotated
  /\ last' = Did("setShashinType", "done", FALSE)
  /\ UNCHANGED << moveTree, rootCopy, currentNode, selectedPath, fen, requests,
                  isLoadingEvaluations, evaluationCache, pc, evaluationBar >>
setMoveEvaluation(n, type) ==
  /\ pc.at = "idle"
  /\ n \in Shown(heap, rootCopy, moveTree)
  /\ heap' = [heap EXCEPT ![n].moveEvaluation = type]
  /\ AnnotationCount(heap') <= MaxAnnotated
  /\ last' = Did("setMoveEvaluation", "done", FALSE)
  /\ UNCHANGED << moveTree, rootCopy, currentNode, selectedPath, fen, requests,
                  isLoadingEvaluations, evaluationCache, pc, evaluationBar >>

\* ---- promoteVariation ----
RECURSIVE isNodeOnMainLinePath(_, _)
isNodeOnMainLinePath(h, n) ==
  IF n = Null \/ h[n].parent = Null THEN TRUE
  ELSE IF h[h[n].parent].mainLine # n THEN FALSE
       ELSE isNodeOnMainLinePath(h, h[n].parent)

\* the while loop of promoteVariation
RECURSIVE VariationRoot(_, _)
VariationRoot(h, n) ==
  IF h[n].parent # Null /\ h[h[n].parent].mainLine = n
  THEN VariationRoot(h, h[n].parent)
  ELSE n

PromoteSwapDirect(h, n) == [h EXCEPT ![h[n].parent].mainLine = n]
PromoteSwap(h, n) ==
  LET variationRoot == VariationRoot(h, n)
  IN IF h[variationRoot].parent # Null
     THEN [h EXCEPT ![h[variationRoot].parent].mainLine = variationRoot]
     ELSE [h EXCEPT ![h[n].parent].mainLine = n]

\* moveTree.value = { ...moveTree.value }: own fields copied (the id among
\* them), the children array shared, the prototype (addChild, addVariation,
\* getPath) lost.  ArrayOwner is the MoveNode whose array and id a root
\* reference carries.
ArrayOwner(rc, ref) == IF ref = RootCopy THEN rc.children ELSE ref
SpreadRoot(h, rc, ref) ==
  [children |-> ArrayOwner(rc, ref), mainLine |-> MainLineOf(h, rc, ref)]

\* the tail shared by promoteVariation and deleteMove once the tree is h1 and
\* the cursor cur1: selectedPath = currentNode.getPath(), then the spread
Restructured(h1, cur1) ==
  IF cur1 = RootCopy
  THEN /\ UNCHANGED << selectedPath, moveTree, rootCopy >>
       /\ heap' = Collect(h1, Roots(moveTree, rootCopy, cur1, requests))
  ELSE /\ selectedPath' = GetPath(h1, cur1)
       /\ moveTree' = RootCopy
       /\ rootCopy' = SpreadRoot(h1, rootCopy, moveTree)
       /\ heap' = Collect(h1, Roots(RootCopy, rootCopy', cur1, requests))

promoteVariation(n) ==
  /\ pc.at = "idle"
  /\ n \in Shown(heap, rootCopy, moveTree) \cup {moveTree}
  /\ IF ParentOf(heap, n) = Null
     THEN Stay("promoteVariation")
     ELSE IF heap[heap[n].parent].mainLine = n /\ isNodeOnMainLinePath(heap, n)
     THEN Stay("promoteVariation")
     ELSE LET h1 == PromoteSwap(heap, n)
          IN /\ Restructured(h1, currentNode)
             /\ last' = Did("promoteVariation",
                           IF currentNode = RootCopy THEN "threw" ELSE "done",
                           heap[VariationRoot(heap, n)].parent = ArrayOwner(rootCopy, moveTree))
             /\ UNCHANGED << currentNode, fen, requests, isLoadingEvaluations, pc, evaluationCache, evaluationBar >>

\* ---- deleteMove ----
RemoveAt(s, i) == [j \in 1..(Len(s) - 1) |-> IF j < i THEN s[j] ELSE s[j + 1]]

\* isNodeInDeletedSubtree compares the id fields along the parent links
RECURSIVE isNodeInDeletedSubtree(_, _, _, _)
isNodeInDeletedSubtree(h, rc, nodeToCheck, deletedRoot) ==
  IF nodeToCheck = Null THEN FALSE
  ELSE IF ArrayOwner(rc, nodeToCheck) = deletedRoot THEN TRUE
       ELSE isNodeInDeletedSubtree(h, rc, ParentOf(h, nodeToCheck), deletedRoot)

SpliceChildAndRest(h, n) ==
  LET parent == h[n].parent
      kids == SubSeq(h[parent].children, 1, IndexOf(h[parent].children, n))
  IN [h EXCEPT ![parent].children = kids,
               ![parent].mainLine =
                  IF @ = n THEN (IF Len(kids) > 0 THEN kids[1] ELSE Null) ELSE @]
SpliceChild(h, n) ==
  LET parent == h[n].parent
      kids == RemoveAt(h[parent].children, IndexOf(h[parent].children, n) + 1)
  IN [h EXCEPT ![parent].children = kids,
               ![parent].mainLine =
                  IF @ = n THEN (IF Len(kids) > 0 THEN kids[1] ELSE Null) ELSE @]

deleteMove(n) ==
  /\ pc.at = "idle"
  /\ n \in Shown(heap, rootCopy, moveTree) \cup {moveTree}
  /\ IF ParentOf(heap, n) = Null
     THEN Stay("deleteMove")
     ELSE IF IndexOf(heap[heap[n].parent].children, n) = 0 - 1
     THEN Stay("deleteMove")
     ELSE LET parent == heap[n].parent
              h1 == SpliceChild(heap, n)
              moved == isNodeInDeletedSubtree(h1, rootCopy, currentNode, n)
              cur1 == IF moved THEN parent ELSE currentNode
          IN /\ currentNode' = cur1
             /\ fen' = IF moved THEN h1[parent].fen ELSE fen
             /\ Restructured(h1, cur1)
             /\ last' = Did("deleteMove", IF cur1 = RootCopy THEN "threw" ELSE "done",
                           heap[parent].mainLine = n)
             /\ UNCHANGED << requests, isLoadingEvaluations, pc, evaluationCache, evaluationBar >>

\* ---- evaluation requests ----
\* what EvaluationService.fetchEvaluation resolves to for a position
SideToMove(f) == IF Len(f) % 2 = 0 THEN "white" ELSE "black"
Evaluation(f) == [fen |-> f, sideToMove |-> SideToMove(f)]

\* a batch is one call of fetchEvaluationsForMoves; its Promise.all is told
\* apart from the other batches in flight by the lowest unused number
Batches(rq) == {r.batch : r \in rq}
NewBatch(rq) == CHOOSE b \in 1..(MaxRequests + 1) :
                  b \notin Batches(rq) /\ \A c \in 1..(b - 1) : c \in Batches(rq)

\* the main-line nodes a batch calls fetchEvaluationForNode for: the ones
\* that pass its test `!node.evaluation` (fetchEvaluationForNode has no such
\* test of its own, and no other caller)
ToFetchAll(h, rc, root) == Range(getMainLineMoves(h, rc, root))
ToFetch(h, rc, root) ==
  {n \in Range(getMainLineMoves(h, rc, root)) : h[n].evaluation = NoEval}

\* EvaluationService.fetchEvaluation: the static cache, a Map from
\* `${fen}_${depth}_${lines}` to the stored result and its timestamp.  Depth
\* and lines are two settings of the view, held fixed here, so the key is the
\* position.  The entries are listed oldest timestamp first.
getCacheKeyWithoutFen(f) == << >>
getCacheKey(f) == f
Cached(cache, f) == \E e \in Range(cache) : e.key = getCacheKey(f)
CachedResult(cache, f) == (CHOOSE e \in Range(cache) : e.key = getCacheKey(f)).result
CacheDelete(cache, f) == SelectSeq(cache, LAMBDA e : e.key # getCacheKey(f))
\* evaluationCache.set: a Map holds one entry for a key, stamped Date.now()
CacheSet(cache, f, result) ==
  Append(CacheDelete(cache, f), [key |-> getCacheKey(f), result |-> result])

\* the nodes of a batch whose lookup the cache answers: no request leaves, and
\* fetchEvaluationForNode stores the cached result once its await resumes
Hits(h, rc, root, cache) == {n \in ToFetch(h, rc, root) : Cached(cache, h[n].fen)}
WriteHits(h, rc, root, cache) ==
  [i \in Ids |-> IF i \in Hits(h, rc, root, cache)
                 THEN [h[i] EXCEPT !.evaluation = CachedResult(cache, h[i].fen)]
                 ELSE h[i]]
\* the requests a batch posts to the backend: the lookups the cache misses
Fired(h, rc, root, rq, cache) ==
  {[node |-> n, batch |-> NewBatch(rq)] :
     n \in ToFetch(h, rc, root) \ Hits(h, rc, root, cache)}

\* the button "Fetch Evaluations" (disabled while isLoadingEvaluations)
fetchEvaluationsForMoves ==
  /\ pc.at = "idle"
  /\ ~isLoadingEvaluations
  /\ \E isSpectator \in BOOLEAN :
       IF isSpectator
       THEN /\ last' = Did("fetchEvaluationsForMoves", "noop", FALSE)
            /\ UNCHANGED << heap, requests, isLoadingEvaluations >>
       ELSE LET fired == Fired(heap, rootCopy, moveTree, requests, evaluationCache)
            IN /\ Cardinality(requests) + Cardinality(fired) <= MaxRequests
               /\ requests' = requests \cup fired
               /\ heap' = WriteHits(heap, rootCopy, moveTree, evaluationCache)
               /\ isLoadingEvaluations' = (fired # {})
               /\ last' = Did("fetchEvaluationsForMoves", "done", fired # {})
  /\ UNCHANGED << moveTree, rootCopy, currentNode, selectedPath, fen, pc, evaluationCache, evaluationBar >>

\* the response of one request: fetchEvaluationForNode resumes after its await
WriteToCursor(h, r, cur) ==
  IF cur \in Ids THEN [h EXCEPT ![cur].evaluation = Evaluation(h[r.node].fen)] ELSE h
WriteEvaluation(h, r, cur) == [h EXCEPT ![r.node].evaluation = Evaluation(h[r.node].fen)]

\* the requests still in flight once r has settled: the catch of
\* fetchEvaluationForNode keeps a failure from rejecting the Promise.all, and
\* nothing cancels a request
SettledOrAborted(rq, r, outcome) ==
  IF outcome = "error" THEN {q \in rq : q.batch # r.batch} ELSE rq \ {r}
Settled(rq, r, outcome) == rq \ {r}

\* the response of one request; `fresh` tells whether the entry it stores is
\* younger than CACHE_EXPIRY when its key is looked up next (an older entry
\* is deleted by that lookup).  (A Promise.all that a failing request
\* rejected would run the finally of its batch at the first failure.)
evaluationResponseFailFast(r, outcome, fresh) ==
  /\ pc.at = "idle"
  /\ r \in requests
  /\ (outcome = "evaluation" /\ fresh) =>
       Len(CacheDelete(evaluationCache, heap[r.node].fen)) < MaxCached
  /\ requests' = Settled(requests, r, outcome)
  /\ heap' = Collect(IF outcome = "evaluation"
                     THEN WriteEvaluation(heap, r, currentNode) ELSE heap,
                     Roots(moveTree, rootCopy, currentNode, requests'))
  /\ isLoadingEvaluations' =
       IF outcome # "error" /\ r.batch \in Batches(requests')
       THEN isLoadingEvaluations ELSE FALSE
  /\ last' = Did("evaluationResponse", outcome, r.node \in TreeNodes(heap, rootCopy, moveTree))
  /\ evaluationCache' =
       IF outcome # "evaluation" THEN evaluationCache
       ELSE IF fresh
       THEN CacheSet(evaluationCache, heap[r.node].fen, Evaluation(heap[r.node].fen))
       ELSE CacheDelete(evaluationCache, heap[r.node].fen)
  /\ UNCHANGED << moveTree, rootCopy, currentNode, selectedPath, fen, pc, evaluationBar >>
evaluationResponse(r, outcome, fresh) ==
  /\ pc.at = "idle"
  /\ r \in requests
  /\ (outcome = "evaluation" /\ fresh) =>
       Len(CacheDelete(evaluationCache, heap[r.node].fen)) < MaxCached
  /\ requests' = Settled(requests, r, outcome)
  /\ heap' = Collect(IF outcome = "evaluation"
                     THEN WriteEvaluation(heap, r, currentNode) ELSE heap,
                     Roots(moveTree, rootCopy, currentNode, requests'))
  /\ isLoadingEvaluations' =
       IF r.batch \in Batches(requests') THEN isLoadingEvaluations ELSE FALSE
  /\ last' = Did("evaluationResponse", outcome, r.node \in TreeNodes(heap, rootCopy, moveTree))
  /\ evaluationCache' =
       IF outcome # "evaluation" THEN evaluationCache
       ELSE IF fresh
       THEN CacheSet(evaluationCache, heap[r.node].fen, Evaluation(heap[r.node].fen))
       ELSE CacheDelete(evaluationCache, heap[r.node].fen)
  /\ UNCHANGED << moveTree, rootCopy, currentNode, selectedPath, fen, pc, evaluationBar >>

\* time passes: the oldest entry is older than CACHE_EXPIRY, the next lookup
\* of its key deletes it and goes to the backend
cacheExpires ==
  /\ pc.at = "idle"
  /\ evaluationCache # << >>
  /\ evaluationCache' = Tail(evaluationCache)
  /\ UNCHANGED << heap, moveTree, rootCopy, currentNode, selectedPath, fen, requests,
                  isLoadingEvaluations, pc, last, evaluationBar >>

\* ---- buildTreeFromMoves ----
\* the loop of buildTreeFromMoves.  chess.move on a move the oracle rejects
\* throws in chess.js 1.x, the release whose API the source uses (loadPgn,
\* Move.after): catch, break.  `throws` FALSE is the branch `if (chessMove)`
\* guards against, a null result, which skips the move and goes on.
RECURSIVE BuildFromSkipping(_, _, _, _)
BuildFromSkipping(h, current, movesList, throws) ==
  IF Len(movesList) = 0 THEN [heap |-> h, current |-> current]
  ELSE IF Legal(h[current].fen, Head(movesList))
       THEN LET c == NewId(h)
                san == San(Head(movesList))
            IN BuildFromSkipping(addChild(h, current, c, san, Append(h[current].fen, san)),
                                 c, Tail(movesList), throws)
       ELSE BuildFromSkipping(h, current, Tail(movesList), throws)
RECURSIVE BuildFrom(_, _, _, _)
BuildFrom(h, current, movesList, throws) ==
  IF Len(movesList) = 0 THEN [heap |-> h, current |-> current]
  ELSE IF Legal(h[current].fen, Head(movesList))
       THEN LET c == NewId(h)
                san == San(Head(movesList))
            IN BuildFrom(addChild(h, current, c, san, Append(h[current].fen, san)),
                         c, Tail(movesList), throws)
       ELSE IF throws THEN [heap |-> h, current |-> current]
            ELSE BuildFrom(h, current, Tail(movesList), throws)

\* the position the oracle is in after the loop (number of nodes it creates)
RECURSIVE Replay(_, _, _)
Replay(pos, movesList, throws) ==
  IF Len(movesList) = 0 THEN pos
  ELSE IF Legal(pos, Head(movesList))
       THEN Replay(Append(pos, San(Head(movesList))), Tail(movesList), throws)
       ELSE IF throws THEN pos ELSE Replay(pos, Tail(movesList), throws)

\* move lists are lists of SAN texts (a list that repeats a move is one the
\* oracle rejects part of)
PgnTexts == {"e4", "d5"}
MoveLists == UNION {[1..k -> PgnTexts] : k \in 0..MaxMoves}
\* the lists the board sends: chess.history() of a PGN loaded from the
\* starting position, or the empty list of a reset; the oracle accepts them
\* whole
GameLists == {l \in MoveLists : Len(Replay(startingFen, l, TRUE)) = Len(l)}
\* one game loaded again and again, whole or cut short
ReloadLists == {l \in GameLists : Len(l) > 0 => l[1] = "e4"}
\* any list of texts, as an argument of buildTreeFromMoves called on its own
AnyLists == UNION {[1..k -> PgnTexts \cup {"zz"}] : k \in 0..MaxMoves}

\* initializeTree: a fresh root; the old tree is dropped
FreshRoot(h, rq) ==
  LET h0 == Collect(h, RequestNodes(rq))
  IN [h0 EXCEPT ![NewId(h0)] = MoveNode("", startingFen, Null)]
FreshRootId(h, rq) == NewId(Collect(h, RequestNodes(rq)))

\* setMovesFromPGN, first half: buildTreeFromMoves up to its return (a list
\* the oracle accepts whole is built the same way whatever `throws`, and is
\* taken with throws only).
buildTreeFromMoves(movesList, throws) ==
  LET root == FreshRootId(heap, requests)
      built == BuildFrom(FreshRoot(heap, requests), root, movesList, throws)
  IN /\ pc.at = "idle"
     /\ throws \/ Len(Replay(startingFen, movesList, TRUE)) < Len(movesList)
     /\ Cardinality(FreeIds(Collect(heap, RequestNodes(requests))))
          >= 1 + Len(Replay(startingFen, movesList, throws))
     /\ moveTree' = root
     /\ rootCopy' = NoCopy
     /\ currentNode' = built.current
     /\ selectedPath' = GetPath(built.heap, built.current)
     /\ heap' = built.heap
     /\ \E isSpectator \in BOOLEAN :
          IF isSpectator
          THEN /\ UNCHANGED << requests, isLoadingEvaluations >>
               /\ pc' = [at |-> "builtSpectator", moves |-> movesList]
               /\ last' = Did("buildTreeFromMoves",
                             IF Len(Replay(startingFen, movesList, TRUE)) < Len(movesList)
                             THEN "stopped" ELSE "done", FALSE)
          ELSE LET fired == Fired(built.heap, NoCopy, root, requests, evaluationCache)
               IN /\ Cardinality(requests) + Cardinality(fired) <= MaxRequests
                  /\ requests' = requests \cup fired
                  /\ isLoadingEvaluations' = TRUE
                  /\ pc' = [at |-> IF fired = {} THEN "builtNothingFired" ELSE "built",
                            moves |-> movesList]
                  /\ last' = Did("buildTreeFromMoves",
                                IF Len(Replay(startingFen, movesList, TRUE)) < Len(movesList)
                                THEN "stopped" ELSE "done", TRUE)
     /\ UNCHANGED << fen, evaluationCache, evaluationBar >>

\* setMovesFromPGN, second half: navigateToNode(moveTree.value); afterwards
\* the lookups the cache answered resume and store their results, and the
\* Promise.all of a batch that posted nothing resolves and its finally runs
setMovesFromPGN ==
  /\ pc.at \in AfterBuild
  /\ pc' = Idle
  /\ currentNode' = moveTree
  /\ selectedPath' = GetPath(heap, moveTree)
  /\ fen' = heap[moveTree].fen
  /\ isLoadingEvaluations' =
       IF pc.at = "builtNothingFired" THEN FALSE ELSE isLoadingEvaluations
  /\ last' = Did("setMovesFromPGN", "done", FALSE)
  /\ heap' = IF pc.at = "builtSpectator" THEN heap
             ELSE WriteHits(heap, rootCopy, moveTree, evaluationCache)
  /\ UNCHANGED << moveTree, rootCopy, requests, evaluationCache, evaluationBar >>

\* handleSystemReset: initializeTree, then updateFen(startingFen)
handleSystemReset ==
  /\ pc.at = "idle"
  /\ Cardinality(FreeIds(Collect(heap, RequestNodes(requests)))) >= 1
  /\ heap' = FreshRoot(heap, requests)
  /\ moveTree' = FreshRootId(heap, requests)
  /\ rootCopy' = NoCopy
  /\ currentNode' = moveTree'
  /\ selectedPath' = << >>
  /\ fen' = startingFen
  /\ last' = Did("handleSystemReset", "done", FALSE)
  /\ UNCHANGED << requests, isLoadingEvaluations, pc, evaluationCache, evaluationBar >>

\* ---- EvaluationBar: the watchers and the responses ----
\* a watcher of a prop runs fetchEvaluation with the new props
propChanged(b, op) ==
  /\ pc.at = "idle"
  /\ evaluationBar' = fetchEvaluation(b)
  /\ Len(evaluationBar'.posts) <= MaxRequests
  /\ last' = Did(op, IF Len(evaluationBar'.posts) > Len(evaluationBar.posts)
                     THEN "posted" ELSE "cleared", FALSE)
  /\ UNCHANGED << heap, moveTree, rootCopy, currentNode, selectedPath, fen, requests,
                  isLoadingEvaluations, evaluationCache, pc >>
fenChanged(f) ==
  /\ f # evaluationBar.fen
  /\ propChanged([evaluationBar EXCEPT !.fen = f], "fenChanged")
depthChanged(d) ==
  /\ d # evaluationBar.depth
  /\ propChanged([evaluationBar EXCEPT !.depth = d], "depthChanged")
enabledChanged ==
  propChanged([evaluationBar EXCEPT !.enabled = ~@], "enabledChanged")
\* the POST started i-th of those in flight settles: the rest of
\* fetchEvaluation, then the watcher of [evaluation, loading], which has
\* something to store only after a response with an evaluation
barResponse(i, outcome) ==
  /\ pc.at = "idle"
  /\ i \in 1..Len(evaluationBar.posts)
  /\ evaluationBar' =
       LET b == [evaluationBar EXCEPT !.posts = RemoveAt(@, i),
                                    !.loading = FALSE]
       IN CASE outcome = "evaluation" ->
                 [b EXCEPT !.evaluation = evaluationBar.posts[i],
                           !.lastValid = [evaluation |-> evaluationBar.posts[i],
                                          whiteToMove |-> b.evaluationSideToMove]]
            [] outcome = "empty" -> [b EXCEPT !.evaluation = NoBarEvaluation]
            [] outcome = "failed" ->
                 [b EXCEPT !.error = "Failed to get evaluation",
                           !.evaluation = NoBarEvaluation,
                           !.evaluationSideToMove = TRUE]
  /\ last' = Did("barResponse", outcome, FALSE)
  /\ UNCHANGED << heap, moveTree, rootCopy, currentNode, selectedPath, fen, requests,
                  isLoadingEvaluations, evaluationCache, pc >>
\* what the bar draws: evaluationPercentage and formatEvaluation are
\* functions of the evaluation and of the flag they flip it by
BarShows(b) ==
  IF b.evaluation = NoBarEvaluation THEN NoLastValid
  ELSE IF b.loading THEN b.lastValid
  ELSE [evaluation |-> b.evaluation, whiteToMove |-> b.evaluationSideToMove]

\* ---- the tree alone: moves, navigation, promotion, deletion ----
Next ==
  \/ \E text \in MoveTexts : addMove(text)
  \/ backStart
  \/ backOneMove
  \/ \E n \in Ids \cup {RootCopy} : promoteVariation(n)
  \/ \E n \in Ids \cup {RootCopy} : deleteMove(n)

Spec == Init /\ [][Next]_vars

\* ---- loading, resetting and evaluating while the cursor moves; more than
\* CACHE_EXPIRY passes between a response and the next lookup ----
NextEval ==
  \/ \E movesList \in GameLists : buildTreeFromMoves(movesList, TRUE)
  \/ setMovesFromPGN
  \/ handleSystemReset
  \/ fetchEvaluationsForMoves
  \/ \E r \in requests, outcome \in {"evaluation", "empty", "error"} :
       evaluationResponse(r, outcome, FALSE)
  \/ forwardOneMove
  \/ backOneMove

SpecEval == Init /\ [][NextEval]_vars

\* ---- buildTreeFromMoves on any list of move texts, lookups as above ----
NextBuild ==
  \/ \E movesList \in AnyLists : buildTreeFromMoves(movesList, TRUE)
  \/ setMovesFromPGN
  \/ \E r \in requests, outcome \in {"evaluation", "empty", "error"} :
       evaluationResponse(r, outcome, FALSE)
  \/ forwardOneMove

SpecBuild == Init /\ [][NextBuild]_vars

\* ---- evaluating with the cache: positions come back within CACHE_EXPIRY ----
NextCache ==
  \/ \E movesList \in ReloadLists : buildTreeFromMoves(movesList, TRUE)
  \/ setMovesFromPGN
  \/ fetchEvaluationsForMoves
  \/ \E r \in requests, outcome \in {"evaluation", "error"}, fresh \in BOOLEAN :
       evaluationResponse(r, outcome, fresh)
  \/ cacheExpires

SpecCache == Init /\ [][NextCache]_vars

\* ---- walking the tree: the navigation buttons, moves from the board,
\* deletion and promotion ----
NextNav ==
  \/ \E text \in PgnTexts : addMove(text)
  \/ backStart
  \/ backOneMove
  \/ forwardOneMove
  \/ forwardEnd
  \/ \E n \in Ids : deleteMove(n)
  \/ \E n \in Ids : promoteVariation(n)

SpecNav == Init /\ [][NextNav]_vars

\* ---- promoting variations of an annotated tree ----
NextPromote ==
  \/ \E text \in PgnTexts : addMove(text)
  \/ backOneMove
  \/ \E n \in Ids, type \in ShashinTypes : setShashinType(n, type)
  \/ \E n \in Ids, type \in MoveEvaluations : setMoveEvaluation(n, type)
  \/ \E n \in Ids : promoteVariation(n)

SpecPromote == Init /\ [][NextPromote]_vars

\* ---- deleting moves of a tree whose main line is evaluated ----
NextDelete ==
  \/ \E text \in PgnTexts : addMove(text)
  \/ backOneMove
  \/ fetchEvaluationsForMoves
  \/ \E r \in requests : evaluationResponse(r, "evaluation", FALSE)
  \/ \E n \in Ids : deleteMove(n)

SpecDelete == Init /\ [][NextDelete]_vars

\* ---- deleting moves of an annotated tree ----
NextDeleteAnnotated ==
  \/ \E text \in PgnTexts : addMove(text)
  \/ backOneMove
  \/ \E n \in Ids, type \in ShashinTypes : setShashinType(n, type)
  \/ \E n \in Ids, type \in MoveEvaluations : setMoveEvaluation(n, type)
  \/ \E n \in Ids : deleteMove(n)

SpecDeleteAnnotated == Init /\ [][NextDeleteAnnotated]_vars

\* ---- the evaluation bar: props change while POSTs are in flight ----
NextBar ==
  \/ \E f \in BarFens : fenChanged(f)
  \/ \E d \in BarDepths : depthChanged(d)
  \/ enabledChanged
  \/ \E i \in 1..MaxRequests + 1, outcome \in {"evaluation", "empty", "failed"} :
        barResponse(i, outcome)
SpecBar == Init /\ [][NextBar]_vars

\* ======================= properties =======================
HeldNodes(h, rc, root) == {root} \cup TreeNodes(h, rc, root)
OnMainLine(h, rc, root, n) == n = root \/ n \in Range(getMainLineMoves(h, rc, root))
Count(s, x) == Cardinality({i \in 1..Len(s) : s[i] = x})

\* navigating from a root by child indices
RECURSIVE Follow(_, _, _, _)
Follow(h, rc, ref, path) ==
  IF Len(path) = 0 THEN ref
  ELSE IF ref = Null THEN Null
  ELSE LET kids == ChildrenOf(h, rc, ref)
       IN IF Head(path) < 0 \/ Head(path) >= Len(kids) THEN Null
          ELSE Follow(h, rc, kids[Head(path) + 1], Tail(path))

\* the parents met when walking up from n, at most `fuel` of them
RECURSIVE AncestorsOf(_, _, _)
AncestorsOf(h, n, fuel) ==
  IF fuel = 0 \/ h[n].parent = Null THEN {}
  ELSE {h[n].parent} \cup AncestorsOf(h, h[n].parent, fuel - 1)

\* C1 (as claimed): every node reachable from the root object held in
\* moveTree, that root included, has mainLine null or among its own children.
C1_MainLineContainment ==
  \A n \in HeldNodes(heap, rootCopy, moveTree) :
     \/ MainLineOf(heap, rootCopy, n) = Null
     \/ MainLineOf(heap, rootCopy, n) \in Range(ChildrenOf(heap, rootCopy, n))

\* C2: no node of the tree is its own ancestor, its parent links end at a
\* root (an object without parent), and it is an entry, once, of exactly one
\* children array (the spread copy of the root holds the root's own array,
\* not a second one).
C2_Acyclicity ==
  \A n \in TreeNodes(heap, rootCopy, moveTree) :
     /\ n \notin AncestorsOf(heap, n, MaxObj)
     /\ \E a \in AncestorsOf(heap, n, MaxObj) : heap[a].parent = Null
     /\ Cardinality({p \in Ids : heap[p].used /\ n \in Range(heap[p].children)}) = 1
     /\ \A p \in Ids : heap[p].used => Count(heap[p].children, n) <= 1
C2_Witness ==
  /\ last.op \in {"deleteMove", "promoteVariation"}
  /\ last.outcome = "done"
  /\ Cardinality(TreeNodes(heap, rootCopy, moveTree)) >= 3

\* C3 (as claimed): addMove(m) with a legal m leaves the node it was called
\* from with exactly one child carrying m and the cursor on that child, so a
\* first call creates the child and a replay from the same node finds it.
C3_IdempotentReplay ==
  [][\A text \in MoveTexts :
       (last'.op = "addMove" /\ Legal(FenOf(heap, currentNode), text) /\ addMove(text)) =>
          LET kids == ChildrenOf(heap', rootCopy', currentNode)
          IN /\ Cardinality({i \in 1..Len(kids) : heap'[kids[i]].move = San(text)}) = 1
             /\ currentNode' = FindChild(heap', kids, San(text))]_vars

\* C4 (as claimed): for every node n reachable from the root held in moveTree,
\* n.getPath() followed from that root arrives at n; the root's path is [].
C4_PathRoundTrip ==
  /\ \A n \in HeldNodes(heap, rootCopy, moveTree) :
        /\ CallGetPath(heap, n) # Threw
        /\ Follow(heap, rootCopy, moveTree, CallGetPath(heap, n)) = n
  /\ CallGetPath(heap, moveTree) = << >>

\* C5 (as claimed): B on the main line from the held root, C its mainLine
\* child, D another child: after promoteVariation(D) the main line from the
\* held root runs through B and then D, and C is still a child of B.
C5_PromotionCorrectness ==
  [][\A D \in Ids : \A B \in HeldNodes(heap, rootCopy, moveTree) :
       (/\ last'.op = "promoteVariation"
        /\ OnMainLine(heap, rootCopy, moveTree, B)
        /\ D \in Range(ChildrenOf(heap, rootCopy, B))
        /\ MainLineOf(heap, rootCopy, B) \in Range(ChildrenOf(heap, rootCopy, B))
        /\ MainLineOf(heap, rootCopy, B) # D
        /\ promoteVariation(D)) =>
          LET B2 == IF B = moveTree THEN moveTree' ELSE B
              line == << moveTree' >> \o getMainLineMoves(heap', rootCopy', moveTree')
          IN /\ \E i \in 1..(Len(line) - 1) : line[i] = B2 /\ line[i + 1] = D
             /\ MainLineOf(heap, rootCopy, B) \in Range(ChildrenOf(heap', rootCopy', B2))]_vars

\* C6 (as claimed): after deleteMove(n) of a node that was its parent's
\* mainLine, the parent's mainLine read from the tree held in moveTree is the
\* first remaining child, or null when none remains.
C6_DeletionRepairsMainLine ==
  [][\A n \in Ids : \A P \in HeldNodes(heap, rootCopy, moveTree) :
       (/\ last'.op = "deleteMove"
        /\ n \in Range(ChildrenOf(heap, rootCopy, P))
        /\ MainLineOf(heap, rootCopy, P) = n
        /\ deleteMove(n)) =>
          LET P2 == IF P = moveTree THEN moveTree' ELSE P
              kids == ChildrenOf(heap', rootCopy', P2)
          IN MainLineOf(heap', rootCopy', P2) = IF Len(kids) > 0 THEN kids[1] ELSE Null]_vars

C8_RejectedMoveChangesNothing ==
  [][\A text \in MoveTexts :
       (last'.op = "addMove" /\ ~Legal(FenOf(heap, currentNode), text) /\ addMove(text)) =>
          /\ UNCHANGED << heap, moveTree, rootCopy, currentNode, selectedPath, fen >>
          /\ last'.outcome = "rejected"]_vars
C8_Witness ==
  /\ last = Did("addMove", "rejected", FALSE)
  /\ Cardinality(TreeNodes(heap, rootCopy, moveTree)) >= 2
  /\ currentNode \in TreeNodes(heap, rootCopy, moveTree)

\* C9 (as claimed): addMove with a legal move no child carries appends one
\* new node to the children of the current node, makes it mainLine exactly
\* when there was no child before, and touches no other children or mainLine.
C9_AddMoveFrame ==
  [][\A text \in MoveTexts :
       (/\ last'.op = "addMove"
        /\ Legal(FenOf(heap, currentNode), text)
        /\ FindChild(heap, ChildrenOf(heap, rootCopy, currentNode), San(text)) = Null
        /\ addMove(text)) =>
          LET kids == ChildrenOf(heap, rootCopy, currentNode)
              c == currentNode'
          IN /\ c \in Ids
             /\ ~heap[c].used
             /\ ChildrenOf(heap', rootCopy', currentNode) = Append(kids, c)
             /\ MainLineOf(heap', rootCopy', currentNode) =
                  IF Len(kids) = 0 THEN c ELSE MainLineOf(heap, rootCopy, currentNode)
             /\ \A m \in Ids \ {c, ArrayOwner(rootCopy, currentNode)} :
                  heap[m].used => /\ heap'[m].children = heap[m].children
                                  /\ heap'[m].mainLine = heap[m].mainLine]_vars

\* the position after the first n moves of a list, all of them accepted
Played(movesList, n) == [m \in 1..n |-> San(movesList[m])]

\* C10: when buildTreeFromMoves returns from a list the oracle accepts whole,
\* the tree is one chain in list order: each node is the only child and the
\* mainLine of the one before it, the last one is a leaf, and the tree holds
\* nothing else.
C10_BuildYieldsChain ==
  (/\ pc.at \in AfterBuild
   /\ \A j \in 1..Len(pc.moves) : Legal(Played(pc.moves, j - 1), pc.moves[j])) =>
      LET line == getMainLineMoves(heap, rootCopy, moveTree)
          chain == << moveTree >> \o line
      IN /\ Len(line) = Len(pc.moves)
         /\ Cardinality(Range(chain)) = Len(pc.moves) + 1
         /\ \A i \in 1..Len(line) :
              /\ heap[line[i]].move = San(pc.moves[i])
              /\ heap[line[i]].parent = chain[i]
              /\ heap[chain[i]].children = << line[i] >>
              /\ heap[chain[i]].mainLine = line[i]
         /\ heap[chain[Len(chain)]].children = << >>
         /\ TreeNodes(heap, rootCopy, moveTree) = Range(line)
C10_Witness ==
  /\ pc.at \in AfterBuild
  /\ last.op = "buildTreeFromMoves"
  /\ Len(getMainLineMoves(heap, rootCopy, moveTree)) >= 2

\* the oracle accepts the moves before the i-th and rejects the i-th
RejectsAt(movesList, i) ==
  /\ \A j \in 1..(i - 1) : Legal(Played(movesList, j - 1), movesList[j])
  /\ ~Legal(Played(movesList, i - 1), movesList[i])

\* C11: when buildTreeFromMoves returns from a list whose i-th move the
\* oracle rejected, the tree is the chain of the i-1 moves before it and
\* nothing else, and currentNode is the last node of that chain (the root if
\* i = 1).
C11_BuildStopsAtRejection ==
  \A i \in 1..Len(pc.moves) :
     (pc.at \in AfterBuild /\ RejectsAt(pc.moves, i)) =>
        LET line == getMainLineMoves(heap, rootCopy, moveTree)
            chain == << moveTree >> \o line
        IN /\ Len(line) = i - 1
           /\ \A j \in 1..Len(line) :
                /\ heap[line[j]].move = San(pc.moves[j])
                /\ heap[chain[j]].children = << line[j] >>
           /\ heap[chain[Len(chain)]].children = << >>
           /\ TreeNodes(heap, rootCopy, moveTree) = Range(line)
           /\ currentNode = chain[Len(chain)]
           /\ selectedPath = [j \in 1..(i - 1) |-> 0]
\* a build has stopped at a rejected move after accepting at least one
C11_Witness ==
  /\ pc.at \in AfterBuild
  /\ last = Did("buildTreeFromMoves", "stopped", TRUE)
  /\ Len(getMainLineMoves(heap, rootCopy, moveTree)) >= 1
  /\ currentNode # moveTree

\* every children array and every mainLine pointer, the held root's included
Shape(h, rc) == << [m \in Ids |-> << h[m].used, h[m].children, h[m].mainLine >>], rc >>

\* C12 (as claimed): deleteMove on the held root, promoteVariation on the held
\* root and promoteVariation on a node reached from the held root through
\* mainLine links alone return without throwing and leave every children
\* array, every mainLine pointer, currentNode and selectedPath as they were.
C12_IneligibleNodeNoOp ==
  [][\A n \in Ids \cup {RootCopy} :
       (/\ last'.op \in {"promoteVariation", "deleteMove"}
        /\ \/ n = moveTree /\ deleteMove(n)
           \/ OnMainLine(heap, rootCopy, moveTree, n) /\ promoteVariation(n)) =>
          /\ last'.outcome = "noop"
          /\ Shape(heap', rootCopy') = Shape(heap, rootCopy)
          /\ UNCHANGED << currentNode, selectedPath >>]_vars

\* C13 (as claimed): after deleteMove(n) on a node with a parent, a cursor
\* that was on n or below it is on n's former parent, with that parent's
\* path; any other cursor is where it was.
C13_CursorLeavesDeletedSubtree ==
  [][\A n \in Ids :
       (/\ last'.op = "deleteMove"
        /\ heap[n].used
        /\ heap[n].parent # Null
        /\ deleteMove(n)) =>
          IF currentNode # RootCopy
             /\ n \in {currentNode} \cup AncestorsOf(heap, currentNode, MaxObj)
          THEN /\ currentNode' = heap[n].parent
               /\ selectedPath' = GetPath(heap', heap[n].parent)
          ELSE currentNode' = currentNode]_vars

\* C19: backOneMove puts the cursor on the parent of the current node and
\* does nothing on a node without parent; forwardOneMove puts it on the
\* mainLine of the current node when there is one, else on the first child
\* when there is one, else does nothing.
C19_StepNavigation ==
  [][/\ (last'.op = "backOneMove" /\ backOneMove) =>
          IF ParentOf(heap, currentNode) # Null
          THEN currentNode' = ParentOf(heap, currentNode)
          ELSE UNCHANGED << currentNode, selectedPath, fen >>
     /\ (last'.op = "forwardOneMove" /\ forwardOneMove) =>
          LET kids == ChildrenOf(heap, rootCopy, currentNode)
              main == MainLineOf(heap, rootCopy, currentNode)
          IN IF main # Null THEN currentNode' = main
             ELSE IF Len(kids) > 0 THEN currentNode' = kids[1]
             ELSE UNCHANGED << currentNode, selectedPath, fen >>]_vars
\* a step forward has followed a mainLine that is not the first child
C19_Witness ==
  /\ last = Did("forwardOneMove", "moved", FALSE)
  /\ currentNode # RootCopy
  /\ heap[currentNode].parent # Null
  /\ heap[heap[currentNode].parent].mainLine = currentNode
  /\ Len(heap[heap[currentNode].parent].children) >= 2
  /\ heap[heap[currentNode].parent].children[1] # currentNode

\* C20 (as claimed): backStart leaves the cursor on the root held in
\* moveTree, with selectedPath [] and the fen of the root position; forwardEnd
\* leaves the cursor on the last node of the main line from that root.
C20_JumpNavigation ==
  [][/\ (last'.op = "backStart" /\ backStart) =>
          /\ currentNode' = moveTree'
          /\ selectedPath' = << >>
          /\ fen' = startingFen
     /\ (last'.op = "forwardEnd" /\ forwardEnd) =>
          LET line == getMainLineMoves(heap, rootCopy, moveTree)
          IN Len(line) > 0 => currentNode' = line[Len(line)]]_vars
\* ---- batches of evaluation requests ----
\* a step in which requests settle, and the batches they belong to
ResponseStep == requests' \subseteq requests /\ requests' # requests
SettlingBatches == Batches(requests \ requests')

\* C14: a batch clears isLoadingEvaluations at the step in which the last of
\* its requests settles, by success or by failure, and at no earlier response
\* of one of its requests; a batch that posts no request clears it at once.
C14_BatchJoin ==
  [][/\ ResponseStep =>
          \A b \in SettlingBatches :
             IF b \in Batches(requests')
             THEN isLoadingEvaluations' = isLoadingEvaluations
             ELSE ~isLoadingEvaluations'
     /\ (/\ last'.op = "fetchEvaluationsForMoves" /\ last'.outcome = "done"
         /\ evaluationCache' = evaluationCache /\ requests' = requests
         /\ pc.at = "idle") => ~isLoadingEvaluations']_vars
\* one request of a batch of two has failed, the other is in flight and the
\* indicator is still on
C14_Witness ==
  /\ last = Did("evaluationResponse", "error", TRUE)
  /\ isLoadingEvaluations
  /\ Cardinality(requests) = 1
  /\ \E r \in requests :
       /\ r.node \in Range(getMainLineMoves(heap, rootCopy, moveTree))
       /\ \E n \in Range(getMainLineMoves(heap, rootCopy, moveTree)) \ {r.node} :
            heap[n].evaluation = NoEval

\* C15 (as claimed): isLoadingEvaluations is true whenever a request fired by
\* fetchEvaluationsForMoves is in flight.
C15_BusyWhileInFlight == requests # {} => isLoadingEvaluations

\* C16: the failure of a request removes that request alone from the ones in
\* flight and changes no evaluation; a request that succeeds, whatever became
\* of the others of its batch, stores its evaluation on its node; neither
\* ends in an exception.
C16_FailureIsPerNode ==
  [][ResponseStep =>
       /\ Cardinality(requests \ requests') = 1
       /\ last'.outcome \in {"evaluation", "empty", "error"}
       /\ \A r \in requests \ requests' :
            /\ last'.outcome # "evaluation" =>
                 \A n \in Ids : heap'[n].used => heap'[n].evaluation = heap[n].evaluation
            /\ (last'.outcome = "evaluation" /\ heap'[r.node].used) =>
                 heap'[r.node].evaluation = Evaluation(heap[r.node].fen)]_vars
\* a batch of two is over: one main-line node has its evaluation, the request
\* of the other failed and it has none
C16_Witness ==
  /\ last = Did("evaluationResponse", "evaluation", TRUE)
  /\ requests = {}
  /\ ~isLoadingEvaluations
  /\ \E n, m \in Range(getMainLineMoves(heap, rootCopy, moveTree)) :
       heap[n].evaluation # NoEval /\ heap[m].evaluation = NoEval

\* C17: the evaluation a node carries, stored from a response of the backend
\* or from the cache, has the fen of that node and the side to move of that
\* fen.
C17_EvaluationOfOwnPosition ==
  \A n \in Ids :
     (heap[n].used /\ heap[n].evaluation # NoEval) =>
        /\ heap[n].evaluation.fen = heap[n].fen
        /\ heap[n].evaluation.sideToMove = SideToMove(heap[n].fen)
\* a game was loaded again: the second node of the new main line, black to
\* move before it and white after, got its evaluation from the cache
C17_Witness ==
  /\ last.op = "setMovesFromPGN"
  /\ \E n \in Range(getMainLineMoves(heap, rootCopy, moveTree)) :
       /\ heap[n].evaluation # NoEval
       /\ Len(heap[n].fen) = 2

C21_PathOfCursor ==
  selectedPath = IF currentNode = RootCopy THEN << >> ELSE GetPath(heap, currentNode)

\* C22 (as claimed): after promoteVariation(n) on a node of the tree other
\* than the root, n is in the main line computed from the held root.
C22_PromotedNodeOnMainLine ==
  [][\A n \in TreeNodes(heap, rootCopy, moveTree) :
       (last'.op = "promoteVariation" /\ promoteVariation(n)) =>
          n \in Range(getMainLineMoves(heap', rootCopy', moveTree'))]_vars

\* the nearest node among n and its ancestors that is not the mainLine of
\* its parent: every node from n up to it, it excluded, is
NearestOffMainLine(h, n) ==
  CHOOSE v \in {n} \cup AncestorsOf(h, n, MaxObj) :
     /\ h[v].parent # Null
     /\ h[h[v].parent].mainLine # v
     /\ \A x \in ({n} \cup AncestorsOf(h, n, MaxObj)) \ {v} :
          v \in AncestorsOf(h, x, MaxObj) => h[h[x].parent].mainLine = x

\* C23: promoteVariation(n) on a node off the main-line path sets the
\* mainLine of the parent of v, the nearest node among n and its ancestors
\* that is not its parent's mainLine, to v, and leaves every other field of
\* every MoveNode, the mainLine of a root copy already held, and currentNode
\* as they were.
C23_PromotionFrame ==
  [][\A n \in Ids :
       (/\ last'.op = "promoteVariation"
        /\ heap[n].used
        /\ ~isNodeOnMainLinePath(heap, n)
        /\ promoteVariation(n)) =>
          LET v == NearestOffMainLine(heap, n)
          IN /\ heap' = [heap EXCEPT ![heap[v].parent].mainLine = v]
             /\ rootCopy # NoCopy => rootCopy'.mainLine = rootCopy.mainLine
             /\ currentNode' = currentNode]_vars
\* a variation was promoted from a node below its first move, in a tree with
\* an annotated node
C23_Witness ==
  /\ last.op = "promoteVariation" /\ last.outcome = "done"
  /\ AnnotationCount(heap) > 0
  /\ \E v \in Range(ChildrenOf(heap, rootCopy, moveTree)) :
       /\ heap[heap[v].parent].mainLine = v
       /\ Len(heap[heap[v].parent].children) = 2
       /\ heap[heap[v].parent].children[2] = v
       /\ heap[v].children # << >>

\* C24: deleteMove(n) on a node with a parent takes n and nothing else out of
\* the parent's children, which keep their order; of the parent it changes
\* children and at most mainLine; every MoveNode that is neither the parent
\* nor in the subtree of n keeps all its fields.
C24_DeletionFrame ==
  [][\A n \in Ids :
       (/\ last'.op = "deleteMove"
        /\ heap[n].used
        /\ heap[n].parent # Null
        /\ deleteMove(n)) =>
          LET P == heap[n].parent
          IN /\ heap'[P].children = SelectSeq(heap[P].children, LAMBDA c : c # n)
             /\ [heap'[P] EXCEPT !.children = << >>, !.mainLine = Null]
                  = [heap[P] EXCEPT !.children = << >>, !.mainLine = Null]
             /\ heap'[P].mainLine # heap[P].mainLine => heap[P].mainLine = n
             /\ \A x \in Ids \ (Below(heap, {n}) \cup {P}) : heap'[x] = heap[x]]_vars
\* a variation at the root was deleted; the main-line move next to it is
\* still there with its evaluation
C24_Witness ==
  /\ last = Did("deleteMove", "done", FALSE)
  /\ \E c \in Range(ChildrenOf(heap, rootCopy, moveTree)) :
       /\ heap[c].evaluation # NoEval
       /\ heap[c].children = << >>
       /\ heap[heap[c].parent].children = << c >>

\* ---- the evaluation service ----
RequestKey(h, r) == getCacheKey(h[r.node].fen)

\* C25 (as claimed): a request is sent to the backend for a key only when no
\* earlier request for that key is in flight and the cache holds no unexpired
\* result for it; one step sends at most one request for a key.
C25_RequestsDeDuplicated ==
  [][\A r \in requests' \ requests :
       /\ \A q \in requests : RequestKey(heap, q) # RequestKey(heap', r)
       /\ \A q \in (requests' \ requests) \ {r} : RequestKey(heap', q) # RequestKey(heap', r)
       /\ ~Cached(evaluationCache, heap'[r.node].fen)]_vars

\* ---- the tree the views read ----
\* C26 (as claimed): every child of a node reachable from the root held in
\* moveTree, that root included, has that very node as its parent.
C26_ParentOfChild ==
  \A p \in HeldNodes(heap, rootCopy, moveTree) :
     \A c \in Range(ChildrenOf(heap, rootCopy, p)) : heap[c].parent = p

\* C27 (as claimed): currentNode is the root held in moveTree or a node
\* reachable from it through children arrays.
C27_CursorInTree ==
  currentNode \in HeldNodes(heap, rootCopy, moveTree)

\* C28 (as claimed): for every node reachable from the root held in moveTree,
\* that root included, mainLine is null exactly when children is empty.
C28_MainLineIffChildren ==
  \A p \in HeldNodes(heap, rootCopy, moveTree) :
     (MainLineOf(heap, rootCopy, p) = Null) <=> (ChildrenOf(heap, rootCopy, p) = << >>)


\* ---- the evaluation bar ----
\* (C29) Whatever evaluation the bar draws, the flag it flips it by is the
\* side to move of the fen that evaluation was requested for, also when a
\* second request starts while the first is in flight.
C29_FlagOfShownEvaluation ==
  LET shown == BarShows(evaluationBar)
  IN shown.evaluation # NoBarEvaluation
       => shown.whiteToMove = isWhiteToMove(shown.evaluation.fen)

\* (C30) With the bar enabled on a position: once no request is in flight,
\* an evaluation the bar draws is the one of the current fen and depth
\* props; and loading is true while any request is in flight.
C30_LatestRequestWins ==
  /\ (/\ evaluationBar.posts = << >>
      /\ evaluationBar.enabled
      /\ evaluationBar.fen # NoFen
      /\ BarShows(evaluationBar).evaluation # NoBarEvaluation)
       => BarShows(evaluationBar).evaluation
            = BarEvaluation(evaluationBar.fen, evaluationBar.depth)
  /\ evaluationBar.posts # << >> => evaluationBar.loading

====
